---- MODULE Spec2Model ----
(***************************************************************************)
(* Model of telegram_real_estate_bot.py: the conversation state machine of  *)
(* the intake bot, its per-user FSM storage, the handlers' suspension       *)
(* points (transport and database awaits) and the request store.            *)
(*                                                                          *)
(* Texts are sequences of one-character strings.  The Cyrillic literals of  *)
(* the source are written in Latin transliteration, keeping their case and  *)
(* their spaces (for instance TXT_CANCEL is the cancel button's label and   *)
(* TXT_CANCEL_LOW is the same word in lower case).                          *)
(***************************************************************************)
EXTENDS Integers, Sequences, FiniteSets, TLC

(***************************************************************************)
(* Bounds of the model.                                                     *)
(***************************************************************************)
\* handlers of the modelled users that may be suspended at the same time
MaxTasks == 2
\* uuid4 values drawn during a run
MaxUuid == 2
\* length of a draft's attachment list
MaxFiles == 2
\* updates (messages of the users) received during a run
MaxUpdates == 12

(***************************************************************************)
(* Program constants.                                                       *)
(***************************************************************************)
ADMIN_CHAT_ID == 924325909
MAX_FILE_SIZE == 20 * 1024 * 1024
ALLOWED_DOC_TYPES == {"application/pdf", "image/jpeg", "image/png"}

\* CheckUpStates, and None for a conversation with no state
IDLE == "IDLE"
ADDRESS == "ADDRESS"
CADASTRAL == "CADASTRAL"
WHO == "WHO"
WHO_OTHER == "WHO_OTHER"
DOCS == "DOCS"
COMMENT == "COMMENT"
CONFIRM == "CONFIRM"
CheckUpStates == {ADDRESS, CADASTRAL, WHO, WHO_OTHER, DOCS, COMMENT, CONFIRM}

(***************************************************************************)
(* Text literals of the source.                                             *)
(***************************************************************************)
TXT_CANCEL == <<"O", "t", "m", "e", "n", "a">>
TXT_CANCEL_LOW == <<"o", "t", "m", "e", "n", "a">>
TXT_NEW == <<"S", "o", "z", "d", "a", "t", " ", "n", "o", "v", "y", "i", " ", "z", "a", "p", "r", "o", "s">>
TXT_OTHER == <<"D", "r", "u", "g", "o", "e">>
TXT_AGENT == <<"A", "g", "e", "n", "t">>
TXT_OWNER == <<"V", "l", "a", "d", "e", "l", "e", "t", "s">>
TXT_SKIP == <<"P", "r", "o", "p", "u", "s", "t", "i", "t">>
TXT_DONE == <<"G", "o", "t", "o", "v", "o">>
TXT_UPLOAD == <<"Z", "a", "g", "r", "u", "z", "i", "t", " ", "d", "o", "k", "u", "m", "e", "n", "t">>
TXT_NO == <<"n", "e", "t">>
TXT_N == <<"n">>
TXT_NO_EN == <<"n", "o">>
TXT_SEND == <<"O", "t", "p", "r", "a", "v", "i", "t", " ", "e", "k", "s", "p", "e", "r", "t", "u">>
TXT_EDIT == <<"I", "z", "m", "e", "n", "i", "t", " ", "d", "a", "n", "n", "y", "e">>
CMD_START == <<"s", "t", "a", "r", "t">>
CMD_HELP == <<"h", "e", "l", "p">>
CMD_WHOAMI == <<"w", "h", "o", "a", "m", "i">>
CMD_REPORT == <<"r", "e", "p", "o", "r", "t">>
DASH == <<"-">>

(***************************************************************************)
(* str methods used by the handlers.                                        *)
(***************************************************************************)
UpperChars == <<"A", "B", "C", "D", "E", "F", "G", "H", "I", "J", "K", "L", "M", "N", "O", "P", "Q", "R", "S", "T", "U", "V", "W", "X", "Y", "Z">>
LowerChars == <<"a", "b", "c", "d", "e", "f", "g", "h", "i", "j", "k", "l", "m", "n", "o", "p", "q", "r", "s", "t", "u", "v", "w", "x", "y", "z">>
Digits == {"0", "1", "2", "3", "4", "5", "6", "7", "8", "9"}
Whitespace == {" "}

Chars == {UpperChars[i] : i \in 1..Len(UpperChars)} \cup {LowerChars[i] : i \in 1..Len(LowerChars)}
         \cup Digits \cup Whitespace \cup {":", "/", "-", "<", ">", "&"}

LowerOf ==
    [c \in Chars |->
        IF \E i \in 1..Len(UpperChars) : UpperChars[i] = c
        THEN LowerChars[CHOOSE i \in 1..Len(UpperChars) : UpperChars[i] = c]
        ELSE c]

\* str.lower()
Lower(s) == [i \in 1..Len(s) |-> LowerOf[s[i]]]

RECURSIVE lstrip(_)
lstrip(s) ==
    IF s = <<>> THEN s
    ELSE IF Head(s) \in Whitespace THEN lstrip(Tail(s))
    ELSE s

RECURSIVE rstrip(_)
rstrip(s) ==
    IF s = <<>> THEN s
    ELSE IF s[Len(s)] \in Whitespace THEN rstrip(SubSeq(s, 1, Len(s) - 1))
    ELSE s

\* str.strip(): without the leading and the trailing whitespace
Strip(s) == rstrip(lstrip(s))

\* len(str.split()): the number of maximal runs of non-whitespace characters
TokenCount(s) ==
    Cardinality({i \in 1..Len(s) :
        /\ s[i] \notin Whitespace
        /\ (i = 1 \/ s[i - 1] \in Whitespace)})

\* str.split()[0], the empty text when there is no token
RECURSIVE token(_)
token(s) ==
    IF s = <<>> \/ Head(s) \in Whitespace THEN <<>>
    ELSE <<Head(s)>> \o token(Tail(s))

FirstToken(s) == token(lstrip(s))

\* str.split(":"): the segments between the colons, in order
RECURSIVE SplitColon(_)
SplitColon(s) ==
    LET cs == {i \in 1..Len(s) : s[i] = ":"}
    IN  IF cs = {} THEN <<s>>
        ELSE LET c == CHOOSE i \in cs : \A j \in cs : i <= j
             IN  <<SubSeq(s, 1, c - 1)>> \o SplitColon(SubSeq(s, c + 1, Len(s)))

AllDigits(s) == \A i \in 1..Len(s) : s[i] \in Digits

\* CADASTRAL_RE.match(s): ^\d{1,3}:\d{1,3}:\d{1,10}:\d{1,10}$
CADASTRAL_RE(s) ==
    LET seg == SplitColon(s)
    IN  /\ Len(seg) = 4
        /\ \A i \in 1..4 : AllDigits(seg[i]) /\ Len(seg[i]) >= 1
        /\ Len(seg[1]) <= 3
        /\ Len(seg[2]) <= 3
        /\ Len(seg[3]) <= 10
        /\ Len(seg[4]) <= 10

\* validate_address counting characters where it counts words
validate_address_chars(text) ==
    IF text = <<>> THEN FALSE
    ELSE Len(Strip(text)) >= 2

validate_address(text) ==
    IF text = <<>> THEN FALSE
    ELSE TokenCount(Strip(text)) >= 2

validate_cadastral(text) ==
    IF Lower(text) \in {TXT_NO, TXT_N, TXT_NO_EN} THEN TRUE
    ELSE CADASTRAL_RE(Strip(text))


(***************************************************************************)
(* Inputs: the users, the texts they type and the files they upload.        *)
(***************************************************************************)
Users == {ADMIN_CHAT_ID, ADMIN_CHAT_ID + 1}
\* the users who write to the bot in Spec
Solo == {ADMIN_CHAT_ID}

TXT_SLASH_START == <<"/", "s", "t", "a", "r", "t">>
TXT_ADDR == <<"M", "i", "r", "a", " ", "5">>
TXT_BLANK == <<" ">>

\* texts a user may type whatever the state of the conversation
AnyTime == {TXT_CANCEL, TXT_CANCEL_LOW, TXT_NEW, TXT_SLASH_START}
\* the buttons of the keyboard shown in state s
Keyboard(s) ==
    CASE s = WHO -> {TXT_AGENT, TXT_OTHER}
      [] s = DOCS -> {TXT_DONE, TXT_SKIP, TXT_UPLOAD}
      [] s = CONFIRM -> {TXT_SEND, TXT_EDIT}
      [] OTHER -> {}
\* the free texts a user types in state s
Typed(s) ==
    CASE s = ADDRESS -> {TXT_ADDR, TXT_NO, TXT_BLANK}
      [] s = CADASTRAL -> {TXT_NO, TXT_ADDR}
      [] s = WHO_OTHER -> {TXT_NO, TXT_BLANK}
      [] s = COMMENT -> {TXT_ADDR, TXT_BLANK}
      [] OTHER -> {TXT_NO}
\* the texts a user types while the conversation is in state s
Texts(s) == AnyTime \cup Keyboard(s) \cup Typed(s)

\* a document or a photo as the transport declares it; file_name is the
\* name's stem and extension, <<>> when the document has none
FileEvents ==
    {[content_type |-> "document", mime_type |-> "application/pdf",
      file_size |-> MAX_FILE_SIZE, file_name |-> <<"a", ".pdf">>],
     [content_type |-> "document", mime_type |-> "application/pdf",
      file_size |-> MAX_FILE_SIZE + 1, file_name |-> <<"a", ".pdf">>],
     [content_type |-> "document", mime_type |-> "text/plain",
      file_size |-> MAX_FILE_SIZE + 1, file_name |-> <<"a", ".txt">>]}

(***************************************************************************)
(* State.                                                                   *)
(*   state, data  MemoryStorage: per user the FSM state and the data dict   *)
(*                (a key that is absent is <<>>, a key with value v <<v>>)  *)
(*   tasks        the handlers suspended in an await on the transport or    *)
(*                on the database, each with its locals                     *)
(*   store        the rows of table requests                                *)
(*   uploads      the names of the files in UPLOAD_DIR                      *)
(*   uuids        the number of uuid4 values drawn so far                   *)
(*   now          datetime.utcnow(), in seconds                             *)
(*   sent         the message the latest step handed to the transport       *)
(*   update_id    the number of updates received from the users             *)
(*   update       the latest update: its sender and its text or its file    *)
(* History variables, read by no handler:                                   *)
(*   epoch        per user, how many times the conversation entered CONFIRM *)
(*   origin       for each request id drawn, the user and the epoch of the  *)
(*                draft it was built from                                   *)
(*   ids          per user, for each name in the data's files the arrival   *)
(*                number (seq) of the upload that appended it               *)
(* A validator called on its own:                                           *)
(*   call         the function and the text it is called with               *)
(*   ret          its return value, <<>> until it has returned              *)
(***************************************************************************)
VARIABLES state, data, tasks, store, uploads, uuids, now, sent, update_id, update, epoch, origin, ids, call, ret

vars == <<state, data, tasks, store, uploads, uuids, now, sent, update_id, update, epoch, origin, ids, call, ret>>

EmptyData == [address |-> <<>>, cadastral |-> <<>>, who |-> <<>>,
              comment |-> <<>>, files |-> <<>>]

NoTask == [kind |-> "none"]
NoFile == [content_type |-> "none"]
NoUpdate == [user |-> 0, text |-> <<>>, file |-> NoFile]
NoBody == [id |-> ""]
NoMsg == [to |-> 0, msg |-> "none", body |-> NoBody]

Msg(to, msg) == [to |-> to, msg |-> msg, body |-> NoBody]

NoCall == [fn |-> "none"]

\* the program after construction: no conversation, no row, no file
Started ==
    /\ state = [u \in Users |-> IDLE]
    /\ data = [u \in Users |-> EmptyData]
    /\ tasks = [i \in 1..MaxTasks |-> NoTask]
    /\ store = {}
    /\ uploads = {}
    /\ uuids = 0
    /\ now = 0
    /\ sent = NoMsg
    /\ update_id = 0
    /\ update = NoUpdate
    /\ epoch = [u \in Users |-> 0]
    /\ origin = {}
    /\ ids = [u \in Users |-> <<>>]

Init ==
    /\ Started
    /\ call = NoCall
    /\ ret = <<>>

\* dict.get(key, default)
Get(d, key, default) == IF d[key] = <<>> THEN default ELSE d[key][1]

\* state.update_data(key=value) on one data dict shared by all the users
update_data_shared(u, key, value) == [v \in Users |-> [data[v] EXCEPT ![key] = <<value>>]]

\* state.update_data(key=value)
update_data(u, key, value) == [data EXCEPT ![u][key] = <<value>>]

\* state.finish(): the state is reset and the data dict emptied
finish(u) ==
    /\ state' = [state EXCEPT ![u] = IDLE]
    /\ data' = [data EXCEPT ![u] = EmptyData]

\* State.set()
set_state(u, s) == state' = [state EXCEPT ![u] = s]

(***************************************************************************)
(* Filters of the dispatcher: handlers are tried in registration order and  *)
(* the first whose filters pass handles the message.                        *)
(***************************************************************************)
\* commands=[...]: the first token is "/" and a command name, in any case
IsCommand(t, names) ==
    LET s == lstrip(t)
    IN  /\ s /= <<>>
        /\ s[1] = "/"
        /\ Lower(Tail(token(s))) \in names

FilterStart(t) == IsCommand(t, {CMD_START, CMD_HELP})
FilterWhoami(t) == ~FilterStart(t) /\ IsCommand(t, {CMD_WHOAMI})
FilterCancel(t) == ~FilterStart(t) /\ ~FilterWhoami(t) /\ t = TXT_CANCEL
FilterNew(t) ==
    ~FilterStart(t) /\ ~FilterWhoami(t) /\ ~FilterCancel(t) /\ t = TXT_NEW
\* a text that reaches the handler registered for the user's state
FilterState(u, t, s) ==
    /\ state[u] = s
    /\ ~FilterStart(t) /\ ~FilterWhoami(t) /\ ~FilterCancel(t) /\ ~FilterNew(t)

(***************************************************************************)
(* Base commands.                                                           *)
(***************************************************************************)
cmd_start(u, t) ==
    /\ FilterStart(t)
    /\ finish(u)
    /\ sent' = Msg(u, "welcome")
    /\ UNCHANGED <<tasks, store, uploads, uuids, now>>

cmd_whoami(u, t) ==
    /\ FilterWhoami(t)
    /\ sent' = Msg(u, "chat_id")
    /\ UNCHANGED <<state, data, tasks, store, uploads, uuids, now>>

\* the body of cmd_cancel, also called by the state handlers
cancel(u) ==
    /\ finish(u)
    /\ sent' = Msg(u, "cancelled")
    /\ UNCHANGED <<tasks, store, uploads, uuids, now>>

cmd_cancel(u, t) ==
    /\ FilterCancel(t)
    /\ cancel(u)

start_request(u, t) ==
    /\ FilterNew(t)
    /\ set_state(u, ADDRESS)
    /\ sent' = Msg(u, "ask_address")
    /\ UNCHANGED <<data, tasks, store, uploads, uuids, now>>

\* message.reply(...) followed by state.finish()
reply_and_finish(u, msg) ==
    /\ sent' = Msg(u, msg)
    /\ finish(u)
    /\ UNCHANGED <<tasks, store, uploads, uuids, now>>

\* message.reply(...) and return: nothing but the reply
reply_only(u, msg) ==
    /\ sent' = Msg(u, msg)
    /\ UNCHANGED <<state, data, tasks, store, uploads, uuids, now>>

(***************************************************************************)
(* Address, cadastral number, requester.                                    *)
(***************************************************************************)
process_address(u, t) ==
    /\ FilterState(u, t, ADDRESS)
    /\ LET text == Strip(t)
       IN  IF Lower(text) = TXT_CANCEL_LOW THEN cancel(u)
           ELSE IF ~validate_address(text) THEN reply_only(u, "bad_address")
           ELSE /\ data' = update_data(u, "address", text)
                /\ set_state(u, CADASTRAL)
                /\ sent' = Msg(u, "ask_cadastral")
                /\ UNCHANGED <<tasks, store, uploads, uuids, now>>

\* process_cadastral moving on without update_data(cadastral=...)
process_cadastral_unsaved(u, t) ==
    /\ FilterState(u, t, CADASTRAL)
    /\ LET text == Strip(t)
       IN  IF Lower(text) = TXT_CANCEL_LOW THEN cancel(u)
           ELSE IF ~validate_cadastral(text) THEN reply_only(u, "bad_cadastral")
           ELSE /\ set_state(u, WHO)
                /\ sent' = Msg(u, "ask_who")
                /\ UNCHANGED <<data, tasks, store, uploads, uuids, now>>

process_cadastral(u, t) ==
    /\ FilterState(u, t, CADASTRAL)
    /\ LET text == Strip(t)
       IN  IF Lower(text) = TXT_CANCEL_LOW THEN cancel(u)
           ELSE IF ~validate_cadastral(text) THEN reply_only(u, "bad_cadastral")
           ELSE /\ data' = update_data(u, "cadastral", text)
                /\ set_state(u, WHO)
                /\ sent' = Msg(u, "ask_who")
                /\ UNCHANGED <<tasks, store, uploads, uuids, now>>

process_who(u, t) ==
    /\ FilterState(u, t, WHO)
    /\ LET text == Strip(t)
       IN  IF Lower(text) = TXT_CANCEL_LOW THEN cancel(u)
           ELSE IF text = TXT_OTHER
           THEN /\ set_state(u, WHO_OTHER)
                /\ sent' = Msg(u, "ask_who_other")
                /\ UNCHANGED <<data, tasks, store, uploads, uuids, now>>
           ELSE IF text \notin {TXT_AGENT, TXT_OWNER} THEN reply_only(u, "bad_who")
           ELSE /\ data' = update_data(u, "who", text)
                /\ set_state(u, DOCS)
                /\ sent' = Msg(u, "ask_docs")
                /\ UNCHANGED <<tasks, store, uploads, uuids, now>>

process_who_other(u, t) ==
    /\ FilterState(u, t, WHO_OTHER)
    /\ LET text == Strip(t)
       IN  IF Lower(text) = TXT_CANCEL_LOW THEN cancel(u)
           ELSE /\ data' = update_data(u, "who", text)
                /\ set_state(u, DOCS)
                /\ sent' = Msg(u, "ask_docs")
                /\ UNCHANGED <<tasks, store, uploads, uuids, now>>


(***************************************************************************)
(* Suspended handlers.                                                      *)
(***************************************************************************)
FreeSlots == {i \in 1..MaxTasks : tasks[i] = NoTask}

\* the coroutine is suspended in its first await on the transport
spawn(task) ==
    /\ FreeSlots /= {}
    /\ tasks' = [tasks EXCEPT ![CHOOSE i \in FreeSlots : \A j \in FreeSlots : i <= j] = task]

\* the coroutine returned, or an exception ended it
done(i) == tasks' = [tasks EXCEPT ![i] = NoTask]

goto(i, pc) == tasks' = [tasks EXCEPT ![i].pc = pc]

\* str(uuid.uuid4()): a value never drawn before
uuid4 == ToString(uuids + 1)

\* datetime.utcnow().strftime(...)
strftime == ToString(now)

(***************************************************************************)
(* Documents.                                                               *)
(***************************************************************************)
\* uploads of user u whose handler has not returned yet
Uploading(u) == {i \in 1..MaxTasks : tasks[i].kind = "docs" /\ tasks[i].user = u}

\* the place of a new upload of user u in the order of arrival: after the
\* uploads in flight and after those whose names are in the data
arrival(u) ==
    LET seen == {tasks[i].seq : i \in Uploading(u)} \cup {ids[u][k] : k \in 1..Len(ids[u])}
    IN  IF seen = {} THEN 1 ELSE 1 + CHOOSE m \in seen : \A n \in seen : n <= m

\* the text branch of process_docs
process_docs_text(u, t) ==
    /\ FilterState(u, t, DOCS)
    /\ LET txt == Strip(t)
           low == Lower(txt)
       IN  IF low = TXT_CANCEL_LOW THEN cancel(u)
           ELSE IF txt \in {TXT_SKIP, TXT_DONE}
           THEN /\ data' = update_data(u, "files", Get(data[u], "files", <<>>))
                /\ set_state(u, COMMENT)
                /\ sent' = Msg(u, "ask_comment")
                /\ UNCHANGED <<tasks, store, uploads, uuids, now>>
           ELSE IF txt = TXT_UPLOAD THEN reply_only(u, "send_file")
           ELSE reply_only(u, "bad_docs")

\* the file branch of process_docs up to its first await, bot.get_file
process_docs_file(u, f) ==
    /\ state[u] = DOCS
    /\ Len(Get(data[u], "files", <<>>)) + Cardinality(Uploading(u)) < MaxFiles
    /\ LET named == f.content_type = "document" /\ f.file_name /= <<>>
       IN  /\ named \/ uuids < MaxUuid
           /\ uuids' = IF named THEN uuids ELSE uuids + 1
           /\ spawn([kind |-> "docs", user |-> u, pc |-> "get_file",
                     seq |-> arrival(u),
                     content_type |-> f.content_type,
                     file_size |-> f.file_size,
                     mime_type |-> IF f.content_type = "photo"
                                   THEN "image/jpeg" ELSE f.mime_type,
                     filename |-> IF f.content_type = "photo"
                                  THEN <<"photo_", uuid4, ".jpg">>
                                  ELSE IF named THEN f.file_name
                                  ELSE <<"doc_", uuid4, ".pdf">>,
                     dest |-> <<>>])
    /\ sent' = NoMsg
    /\ UNCHANGED <<state, data, store, uploads, now>>

\* the acceptance policy with the size compared by >=
AcceptFile_below(mime_type, file_size) ==
    IF mime_type \notin ALLOWED_DOC_TYPES THEN "bad_mime"
    ELSE IF file_size >= MAX_FILE_SIZE THEN "too_large"
    ELSE "accept"

\* the acceptance policy on the declared kind and size
AcceptFile(mime_type, file_size) ==
    IF mime_type \notin ALLOWED_DOC_TYPES THEN "bad_mime"
    ELSE IF file_size > MAX_FILE_SIZE THEN "too_large"
    ELSE "accept"

\* bot.get_file returned: the checks, then dest is opened and the download starts
docs_checks(i) ==
    /\ tasks[i].kind = "docs" /\ tasks[i].pc = "get_file"
    /\ LET verdict == AcceptFile(tasks[i].mime_type, tasks[i].file_size)
           dest == <<strftime, "_">> \o tasks[i].filename
       IN  IF verdict /= "accept"
           THEN /\ done(i)
                /\ sent' = Msg(tasks[i].user, verdict)
                /\ UNCHANGED uploads
           ELSE /\ tasks' = [tasks EXCEPT ![i].pc = "download", ![i].dest = dest]
                /\ uploads' = uploads \cup {dest}
                /\ sent' = NoMsg
    /\ UNCHANGED <<state, data, store, uuids, now>>

\* an await on the transport raised and no except clause covers it
raise(i) ==
    /\ done(i)
    /\ sent' = NoMsg
    /\ UNCHANGED <<state, data, store, uploads, uuids, now>>

\* bot.get_file raised
docs_get_file_failed(i) ==
    /\ tasks[i].kind = "docs" /\ tasks[i].pc = "get_file"
    /\ raise(i)

\* the file is on disk: its name is appended to the draft's files
append_file(i) ==
    LET u == tasks[i].user
        files == Get(data[u], "files", <<>>)
    IN  /\ data' = update_data(u, "files", Append(files, tasks[i].dest))
        /\ done(i)
        /\ sent' = Msg(u, "saved")
        /\ UNCHANGED <<state, store, uploads, uuids, now>>

\* bot.download_file returned
docs_downloaded(i) ==
    /\ tasks[i].kind = "docs" /\ tasks[i].pc = "download"
    /\ append_file(i)

\* bot.download_file raised: the except clause downloads through the message
docs_download_failed(i) ==
    /\ tasks[i].kind = "docs" /\ tasks[i].pc = "download"
    /\ goto(i, "fallback")
    /\ sent' = NoMsg
    /\ UNCHANGED <<state, data, store, uploads, uuids, now>>

\* the download of the except clause returned
docs_fallback_downloaded(i) ==
    /\ tasks[i].kind = "docs" /\ tasks[i].pc = "fallback"
    /\ append_file(i)

\* the download of the except clause raised
docs_fallback_failed(i) ==
    /\ tasks[i].kind = "docs" /\ tasks[i].pc = "fallback"
    /\ raise(i)

(***************************************************************************)
(* Comment and preview.                                                     *)
(***************************************************************************)
\* types.utils.escape_html
escape_html(s) ==
    [i \in 1..Len(s) |->
        CASE s[i] = "<" -> "&lt;"
          [] s[i] = ">" -> "&gt;"
          [] s[i] = "&" -> "&amp;"
          [] OTHER -> s[i]]

\* value or "-"
OrDash(v) == IF v = <<>> \/ v[1] = <<>> THEN DASH ELSE v[1]

\* the fields of the message text, in its order
fmt_request_message(rec) ==
    [address |-> IF rec.address = <<>> THEN <<"None">> ELSE escape_html(rec.address[1]),
     cadastral |-> escape_html(OrDash(rec.cadastral)),
     who |-> IF rec.who = <<>> THEN <<"None">> ELSE escape_html(rec.who[1]),
     files |-> IF rec.files = <<>> THEN <<DASH>> ELSE rec.files,
     comment |-> escape_html(OrDash(rec.comment)),
     created_at |-> rec.created_at,
     user_id |-> rec.user_id,
     id |-> rec.id]

\* make_rec reading the address where the comment belongs
make_rec_mixed(u, d, id) ==
    [id |-> id,
     user_id |-> u,
     address |-> d.address,
     cadastral |-> d.cadastral,
     who |-> d.who,
     comment |-> d.address,
     files |-> Get(d, "files", <<>>),
     created_at |-> strftime]

\* the dict process_comment and process_confirm build from the data
make_rec(u, d, id) ==
    [id |-> id,
     user_id |-> u,
     address |-> d.address,
     cadastral |-> d.cadastral,
     who |-> d.who,
     comment |-> d.comment,
     files |-> Get(d, "files", <<>>),
     created_at |-> strftime]

process_comment(u, t) ==
    /\ FilterState(u, t, COMMENT)
    /\ LET text == Strip(t)
       IN  IF Lower(text) = TXT_CANCEL_LOW THEN cancel(u)
           ELSE LET comment == IF text = <<>> THEN TXT_NO ELSE text
                    d == update_data(u, "comment", comment)
                IN  /\ data' = d
                    /\ set_state(u, CONFIRM)
                    /\ sent' = [to |-> u, msg |-> "preview",
                                body |-> fmt_request_message(make_rec(u, d[u], "--"))]
                    /\ UNCHANGED <<tasks, store, uploads, uuids, now>>


(***************************************************************************)
(* Confirmation.                                                            *)
(***************************************************************************)
\* "\n".join(files)
RECURSIVE join(_)
join(files) ==
    IF files = <<>> THEN <<>>
    ELSE IF Len(files) = 1 THEN files[1]
    ELSE files[1] \o <<"\n">> \o join(Tail(files))

\* the row save_request_to_db inserts for rec
row(rec) == [rec EXCEPT !.files = join(rec.files)]

\* path.suffix.lower(): the extension is the last piece of a stored name
suffix_lower(name) ==
    LET ext == name[Len(name)]
    IN  IF ext = ".PDF" THEN ".pdf" ELSE ext

\* the loop over rec["files"] from index k on: a name with no file in
\* UPLOAD_DIR is passed over, the next one is sent; after the last, the answer
RECURSIVE next_file(_, _)
next_file(files, k) ==
    IF k > Len(files) THEN [pc |-> "answer", k |-> 0]
    ELSE IF files[k] \notin uploads THEN next_file(files, k + 1)
    ELSE [pc |-> "send_file", k |-> k]

\* process_confirm on the send button, up to its first await (the insert)
process_confirm_send(u, t) ==
    /\ FilterState(u, t, CONFIRM)
    /\ Strip(t) = TXT_SEND
    /\ uuids < MaxUuid
    /\ uuids' = uuids + 1
    /\ spawn([kind |-> "confirm", user |-> u, pc |-> "save", k |-> 0,
              rec |-> make_rec(u, data[u], uuid4)])
    /\ sent' = NoMsg
    /\ UNCHANGED <<state, data, store, uploads, now>>

\* process_confirm on any other text, the edit button emptying the data
process_confirm_text_wiping(u, t) ==
    /\ FilterState(u, t, CONFIRM)
    /\ LET text == Strip(t)
       IN  /\ text /= TXT_SEND
           /\ IF text = TXT_EDIT
              THEN /\ set_state(u, ADDRESS)
                   /\ data' = [data EXCEPT ![u] = EmptyData]
                   /\ sent' = Msg(u, "ask_address_again")
                   /\ UNCHANGED <<tasks, store, uploads, uuids, now>>
              ELSE IF text = TXT_CANCEL THEN cancel(u)
              ELSE reply_only(u, "bad_confirm")

\* process_confirm on any other text
process_confirm_text(u, t) ==
    /\ FilterState(u, t, CONFIRM)
    /\ LET text == Strip(t)
       IN  /\ text /= TXT_SEND
           /\ IF text = TXT_EDIT
              THEN /\ set_state(u, ADDRESS)
                   /\ sent' = Msg(u, "ask_address_again")
                   /\ UNCHANGED <<data, tasks, store, uploads, uuids, now>>
              ELSE IF text = TXT_CANCEL THEN cancel(u)
              ELSE reply_only(u, "bad_confirm")

\* save_request_to_db returned: the row is committed, bot.send_message starts
confirm_saved(i) ==
    /\ tasks[i].kind = "confirm" /\ tasks[i].pc = "save"
    /\ store' = store \cup {row(tasks[i].rec)}
    /\ goto(i, "send_message")
    /\ sent' = NoMsg
    /\ UNCHANGED <<state, data, uploads, uuids, now>>

\* save_request_to_db raised and the handler went on to its last lines: the
\* user is thanked and the conversation finished
confirm_save_failed_finishing(i) ==
    /\ tasks[i].kind = "confirm" /\ tasks[i].pc = "save"
    /\ finish(tasks[i].user)
    /\ done(i)
    /\ sent' = Msg(tasks[i].user, "thanks")
    /\ UNCHANGED <<store, uploads, uuids, now>>

\* save_request_to_db raised
confirm_save_failed(i) ==
    /\ tasks[i].kind = "confirm" /\ tasks[i].pc = "save"
    /\ raise(i)

\* the task moves on to the next file to send, or to the answer
advance(i, k) ==
    LET nxt == next_file(tasks[i].rec.files, k)
    IN  tasks' = [tasks EXCEPT ![i].pc = nxt.pc, ![i].k = nxt.k]

\* bot.send_message(ADMIN_CHAT_ID, ...) returned
confirm_notified(i) ==
    /\ tasks[i].kind = "confirm" /\ tasks[i].pc = "send_message"
    /\ sent' = [to |-> ADMIN_CHAT_ID, msg |-> "request",
                body |-> fmt_request_message(tasks[i].rec)]
    /\ advance(i, 1)
    /\ UNCHANGED <<state, data, store, uploads, uuids, now>>

\* bot.send_message raised with no except clause around it: the handler ends
confirm_notify_uncaught(i) ==
    /\ tasks[i].kind = "confirm" /\ tasks[i].pc = "send_message"
    /\ done(i)
    /\ sent' = NoMsg
    /\ UNCHANGED <<state, data, store, uploads, uuids, now>>

\* bot.send_message raised: the outer except clause, no file is sent
confirm_notify_failed(i) ==
    /\ tasks[i].kind = "confirm" /\ tasks[i].pc = "send_message"
    /\ goto(i, "answer")
    /\ sent' = NoMsg
    /\ UNCHANGED <<state, data, store, uploads, uuids, now>>

\* bot.send_document or bot.send_photo returned
confirm_file_sent(i) ==
    /\ tasks[i].kind = "confirm" /\ tasks[i].pc = "send_file"
    /\ LET name == tasks[i].rec.files[tasks[i].k]
       IN  sent' = [to |-> ADMIN_CHAT_ID,
                    msg |-> IF suffix_lower(name) = ".pdf"
                            THEN "document" ELSE "photo",
                    body |-> [id |-> tasks[i].rec.id, file |-> name]]
    /\ advance(i, tasks[i].k + 1)
    /\ UNCHANGED <<state, data, store, uploads, uuids, now>>

\* bot.send_document or bot.send_photo raised: the inner except clause
confirm_file_failed(i) ==
    /\ tasks[i].kind = "confirm" /\ tasks[i].pc = "send_file"
    /\ sent' = NoMsg
    /\ advance(i, tasks[i].k + 1)
    /\ UNCHANGED <<state, data, store, uploads, uuids, now>>

\* message.answer returned: state.finish()
confirm_answered(i) ==
    /\ tasks[i].kind = "confirm" /\ tasks[i].pc = "answer"
    /\ finish(tasks[i].user)
    /\ done(i)
    /\ sent' = Msg(tasks[i].user, "thanks")
    /\ UNCHANGED <<store, uploads, uuids, now>>

(***************************************************************************)
(* The bot: a message of a user reaches its handler, or a suspended         *)
(* handler resumes.                                                         *)
(***************************************************************************)
\* the dispatcher takes the next update of the polling loop
Receive(u, t, f) ==
    /\ update_id < MaxUpdates
    /\ update_id' = update_id + 1
    /\ update' = [user |-> u, text |-> t, file |-> f]

\* the event loop resumes a suspended handler
Resume == UNCHANGED <<update_id, update>>

\* the history variables follow the step: a conversation that enters CONFIRM
\* begins a new epoch, a request id is bound to the draft it snapshots, the
\* arrival number of an upload is kept beside the name it appends
History ==
    /\ epoch' = [u \in Users |->
                    IF state[u] /= CONFIRM /\ state'[u] = CONFIRM
                    THEN epoch[u] + 1 ELSE epoch[u]]
    /\ origin' = origin \cup
                    {<<tasks'[i].rec.id, tasks'[i].user, epoch[tasks'[i].user]>> :
                        i \in {j \in 1..MaxTasks :
                                 tasks[j].kind /= "confirm" /\ tasks'[j].kind = "confirm"}}
    /\ ids' = [u \in Users |->
                  LET old == Get(data[u], "files", <<>>)
                      new == Get(data'[u], "files", <<>>)
                  IN  IF new = <<>> THEN <<>>
                      ELSE IF Len(new) = Len(old) + 1
                      THEN Append(ids[u],
                                  tasks[CHOOSE i \in 1..MaxTasks :
                                          tasks[i].kind = "docs" /\ tasks'[i] = NoTask].seq)
                      ELSE ids[u]]
    /\ UNCHANGED <<call, ret>>

Next ==
    \/ \E u \in Solo : \E t \in Texts(state[u]) : Receive(u, t, NoFile) /\ cmd_start(u, t) /\ History
    \/ \E u \in Solo : \E t \in Texts(state[u]) : Receive(u, t, NoFile) /\ cmd_cancel(u, t) /\ History
    \/ \E u \in Solo : \E t \in Texts(state[u]) : Receive(u, t, NoFile) /\ start_request(u, t) /\ History
    \/ \E u \in Solo : \E t \in Texts(state[u]) : Receive(u, t, NoFile) /\ process_address(u, t) /\ History
    \/ \E u \in Solo : \E t \in Texts(state[u]) : Receive(u, t, NoFile) /\ process_cadastral(u, t) /\ History
    \/ \E u \in Solo : \E t \in Texts(state[u]) : Receive(u, t, NoFile) /\ process_who(u, t) /\ History
    \/ \E u \in Solo : \E t \in Texts(state[u]) : Receive(u, t, NoFile) /\ process_who_other(u, t) /\ History
    \/ \E u \in Solo : \E t \in Texts(state[u]) : Receive(u, t, NoFile) /\ process_docs_text(u, t) /\ History
    \/ \E u \in Solo, f \in FileEvents : Receive(u, <<>>, f) /\ process_docs_file(u, f) /\ History
    \/ \E i \in 1..MaxTasks : Resume /\ docs_checks(i) /\ History
    \/ \E i \in 1..MaxTasks : Resume /\ docs_get_file_failed(i) /\ History
    \/ \E i \in 1..MaxTasks : Resume /\ docs_downloaded(i) /\ History
    \/ \E i \in 1..MaxTasks : Resume /\ docs_download_failed(i) /\ History
    \/ \E i \in 1..MaxTasks : Resume /\ docs_fallback_downloaded(i) /\ History
    \/ \E i \in 1..MaxTasks : Resume /\ docs_fallback_failed(i) /\ History
    \/ \E u \in Solo : \E t \in Texts(state[u]) : Receive(u, t, NoFile) /\ process_comment(u, t) /\ History
    \/ \E u \in Solo : \E t \in Texts(state[u]) : Receive(u, t, NoFile) /\ process_confirm_send(u, t) /\ History
    \/ \E u \in Solo : \E t \in Texts(state[u]) : Receive(u, t, NoFile) /\ process_confirm_text(u, t) /\ History
    \/ \E i \in 1..MaxTasks : Resume /\ confirm_saved(i) /\ History
    \/ \E i \in 1..MaxTasks : Resume /\ confirm_save_failed(i) /\ History
    \/ \E i \in 1..MaxTasks : Resume /\ confirm_notified(i) /\ History
    \/ \E i \in 1..MaxTasks : Resume /\ confirm_notify_failed(i) /\ History
    \/ \E i \in 1..MaxTasks : Resume /\ confirm_file_sent(i) /\ History
    \/ \E i \in 1..MaxTasks : Resume /\ confirm_file_failed(i) /\ History
    \/ \E i \in 1..MaxTasks : Resume /\ confirm_answered(i) /\ History

Spec == Init /\ [][Next]_vars

(***************************************************************************)
(* The validators called on their own, on texts built from parts: a text is *)
(* lead \o parts joined by sep \o trail.                                     *)
(***************************************************************************)
\* the longest run of digits in a segment
MaxDigits == 11
\* the largest number of segments of a text
MaxSegs == 5
\* the largest number of words of a text
MaxWords == 3

\* n digits
Rep(n) == [i \in 1..n |-> "7"]

RECURSIVE Joined(_, _)
Joined(parts, sep) ==
    IF parts = <<>> THEN <<>>
    ELSE IF Len(parts) = 1 THEN parts[1]
    ELSE parts[1] \o sep \o Joined(Tail(parts), sep)

TextOf(c) == c.lead \o Joined(c.parts, c.sep) \o c.trail

Pads == {<<>>, <<" ">>}
\* segments: empty, of 1, 3, 4, 10 and MaxDigits digits, not a digit
Segments == {Rep(n) : n \in {0, 1, 3, 4, 10, MaxDigits}} \cup {<<"a">>}
\* the "none" words in some spellings
Sentinels == {TXT_NO, <<"N", "e", "t">>, TXT_N, <<"N">>, TXT_NO_EN, <<"N", "O">>}
Words == {<<"M", "i", "r", "a">>, <<"5">>}

SeqsUpTo(S, lo, hi) == UNION {[1..n -> S] : n \in lo..hi}

Calls ==
    {[fn |-> "validate_cadastral", lead |-> l, parts |-> ps, sep |-> <<":">>, trail |-> t] :
        l \in Pads, t \in Pads, ps \in SeqsUpTo(Segments, 1, MaxSegs) \cup {<<w>> : w \in Sentinels}}
    \cup
    {[fn |-> "validate_address", lead |-> l, parts |-> ps, sep |-> sp, trail |-> t] :
        l \in Pads, t \in Pads, sp \in {<<" ">>, <<" ", " ">>},
        ps \in SeqsUpTo(Words, 0, MaxWords)}

InitValidators ==
    /\ Started
    /\ call \in Calls
    /\ ret = <<>>

call_validate_cadastral ==
    /\ call.fn = "validate_cadastral"
    /\ ret = <<>>
    /\ ret' = <<validate_cadastral(TextOf(call))>>
    /\ UNCHANGED <<state, data, tasks, store, uploads, uuids, now, sent,
                   update_id, update, epoch, origin, ids, call>>

call_validate_address ==
    /\ call.fn = "validate_address"
    /\ ret = <<>>
    /\ ret' = <<validate_address(TextOf(call))>>
    /\ UNCHANGED <<state, data, tasks, store, uploads, uuids, now, sent,
                   update_id, update, epoch, origin, ids, call>>

NextValidators ==
    \/ call_validate_cadastral
    \/ call_validate_address

SpecValidators == InitValidators /\ [][NextValidators]_vars

(***************************************************************************)
(* Two users at once, each walking through the form with values of its own. *)
(***************************************************************************)
\* the two users send at most MaxDuoUpdates updates between them
MaxDuoUpdates == 11

\* the address, the comment and the document of user u
AddressOf(u) == <<"M", "i", "r", "a", " ", IF u = ADMIN_CHAT_ID THEN "5" ELSE "7">>
CommentOf(u) == <<IF u = ADMIN_CHAT_ID THEN "A" ELSE "B">>
FileOf(u) ==
    [content_type |-> "document", mime_type |-> "application/pdf",
     file_size |-> MAX_FILE_SIZE,
     file_name |-> <<IF u = ADMIN_CHAT_ID THEN "a" ELSE "b", ".pdf">>]

\* what user u types while its conversation is in state s
Says(u, s) ==
    CASE s = IDLE -> {TXT_NEW}
      [] s = ADDRESS -> {AddressOf(u), TXT_CANCEL}
      [] s = CADASTRAL -> {TXT_NO, TXT_CANCEL}
      [] s = WHO -> {TXT_AGENT, TXT_CANCEL}
      [] s = DOCS -> {TXT_DONE, TXT_CANCEL}
      [] s = COMMENT -> {CommentOf(u), TXT_CANCEL}
      [] s = CONFIRM -> {TXT_SEND, TXT_EDIT, TXT_CANCEL}
      [] OTHER -> {}

ReceiveDuo(u, t, f) == update_id < MaxDuoUpdates /\ Receive(u, t, f)

NextDuo ==
    \/ \E u \in Users : \E t \in Says(u, state[u]) : ReceiveDuo(u, t, NoFile) /\ cmd_cancel(u, t) /\ History
    \/ \E u \in Users : \E t \in Says(u, state[u]) : ReceiveDuo(u, t, NoFile) /\ start_request(u, t) /\ History
    \/ \E u \in Users : \E t \in Says(u, state[u]) : ReceiveDuo(u, t, NoFile) /\ process_address(u, t) /\ History
    \/ \E u \in Users : \E t \in Says(u, state[u]) : ReceiveDuo(u, t, NoFile) /\ process_cadastral(u, t) /\ History
    \/ \E u \in Users : \E t \in Says(u, state[u]) : ReceiveDuo(u, t, NoFile) /\ process_who(u, t) /\ History
    \/ \E u \in Users : \E t \in Says(u, state[u]) : ReceiveDuo(u, t, NoFile) /\ process_docs_text(u, t) /\ History
    \/ \E u \in Users : ReceiveDuo(u, <<>>, FileOf(u)) /\ process_docs_file(u, FileOf(u)) /\ History
    \/ \E i \in 1..MaxTasks : Resume /\ docs_checks(i) /\ History
    \/ \E i \in 1..MaxTasks : Resume /\ docs_get_file_failed(i) /\ History
    \/ \E i \in 1..MaxTasks : Resume /\ docs_downloaded(i) /\ History
    \/ \E i \in 1..MaxTasks : Resume /\ docs_download_failed(i) /\ History
    \/ \E i \in 1..MaxTasks : Resume /\ docs_fallback_downloaded(i) /\ History
    \/ \E i \in 1..MaxTasks : Resume /\ docs_fallback_failed(i) /\ History
    \/ \E u \in Users : \E t \in Says(u, state[u]) : ReceiveDuo(u, t, NoFile) /\ process_comment(u, t) /\ History
    \/ \E u \in Users : \E t \in Says(u, state[u]) : ReceiveDuo(u, t, NoFile) /\ process_confirm_send(u, t) /\ History
    \/ \E u \in Users : \E t \in Says(u, state[u]) : ReceiveDuo(u, t, NoFile) /\ process_confirm_text(u, t) /\ History
    \/ \E i \in 1..MaxTasks : Resume /\ confirm_saved(i) /\ History
    \/ \E i \in 1..MaxTasks : Resume /\ confirm_save_failed(i) /\ History
    \/ \E i \in 1..MaxTasks : Resume /\ confirm_notified(i) /\ History
    \/ \E i \in 1..MaxTasks : Resume /\ confirm_notify_failed(i) /\ History
    \/ \E i \in 1..MaxTasks : Resume /\ confirm_file_sent(i) /\ History
    \/ \E i \in 1..MaxTasks : Resume /\ confirm_file_failed(i) /\ History
    \/ \E i \in 1..MaxTasks : Resume /\ confirm_answered(i) /\ History

SpecDuo == Init /\ [][NextDuo]_vars

(***************************************************************************)
(* The report of the operator, with the clock running.                      *)
(***************************************************************************)
\* the clock runs up to MaxDay days and, within a day, up to MaxSecond seconds
MaxDay == 8
MaxSecond == 2
\* the operator and the others ask for at most MaxReports reports
MaxReports == 2

\* the seconds of a day
DAY == 24 * 60 * 60

Clock == {d * DAY + k : d \in 0..MaxDay, k \in 0..MaxSecond}

TXT_REPORT == <<"/", "r", "e", "p", "o", "r", "t">>
TXT_REPORT_0 == TXT_REPORT \o <<" ", "0">>
TXT_REPORT_1 == TXT_REPORT \o <<" ", "1">>
TXT_REPORT_X == TXT_REPORT \o <<" ", "x">>
Reports == {TXT_REPORT, TXT_REPORT_0, TXT_REPORT_1, TXT_REPORT_X}

\* message.get_args(): what follows the command, "" when nothing does
get_args(t) ==
    LET s == lstrip(t)
    IN  lstrip(SubSeq(s, Len(token(s)) + 1, Len(s)))

\* str.isdigit()
isdigit(s) == s /= <<>> /\ AllDigits(s)

\* int(s) of a text of digits
RECURSIVE int(_)
int(s) ==
    IF s = <<>> THEN 0
    ELSE 10 * int(SubSeq(s, 1, Len(s) - 1))
         + (CHOOSE n \in 0..9 : ToString(n) = s[Len(s)])

\* datetime(created_at): the time a timestamp written by strftime stands for
datetime(s) == CHOOSE n \in Clock : ToString(n) = s

\* the rows the query of cmd_report selects when it runs with lookback days
select(days) == {r \in store : datetime(r.created_at) >= now - days * DAY}

\* no earlier handler takes the text and the user is in no state of the form
FilterReport(u, t) ==
    /\ ~FilterStart(t) /\ ~FilterWhoami(t) /\ ~FilterCancel(t) /\ ~FilterNew(t)
    /\ state[u] \notin CheckUpStates
    /\ IsCommand(t, {CMD_REPORT})

\* cmd_report up to the query
cmd_report(u, t) ==
    /\ FilterReport(u, t)
    /\ LET args == get_args(t)
       IN  IF u /= ADMIN_CHAT_ID THEN reply_only(u, "admin_only")
           ELSE IF args /= <<>> /\ ~isdigit(args) THEN reply_only(u, "usage")
           ELSE /\ spawn([kind |-> "report", user |-> u, pc |-> "query",
                          days |-> IF args /= <<>> THEN int(args) ELSE 7,
                          rows |-> {}])
                /\ sent' = Msg(u, "forming")
                /\ UNCHANGED <<state, data, store, uploads, uuids, now>>

\* the query returned its rows: none and the handler says so, else the workbook
\* is built and bot.send_document starts
report_queried(i) ==
    /\ tasks[i].kind = "report" /\ tasks[i].pc = "query"
    /\ LET rows == select(tasks[i].days)
       IN  IF rows = {}
           THEN /\ done(i)
                /\ sent' = Msg(tasks[i].user, "not_found")
           ELSE /\ tasks' = [tasks EXCEPT ![i].pc = "send_document", ![i].rows = rows]
                /\ sent' = NoMsg
    /\ UNCHANGED <<state, data, store, uploads, uuids, now>>

\* bot.send_document returned
report_sent(i) ==
    /\ tasks[i].kind = "report" /\ tasks[i].pc = "send_document"
    /\ done(i)
    /\ sent' = [to |-> ADMIN_CHAT_ID, msg |-> "report",
                body |-> [days |-> tasks[i].days, rows |-> tasks[i].rows]]
    /\ UNCHANGED <<state, data, store, uploads, uuids, now>>

\* bot.send_document raised
report_send_failed(i) ==
    /\ tasks[i].kind = "report" /\ tasks[i].pc = "send_document"
    /\ raise(i)

\* the clock advances by a second, a day or a week
Tick ==
    /\ \E d \in {1, DAY, 7 * DAY} :
          /\ now + d \in Clock
          /\ now' = now + d
    /\ UNCHANGED <<state, data, tasks, store, uploads, uuids, sent>>

\* the requests on file when the operator asks: made by sends in second 0
Filed ==
    {row(make_rec(u, [address |-> <<TXT_ADDR>>, cadastral |-> <<TXT_NO>>,
                      who |-> <<TXT_AGENT>>, comment |-> <<TXT_NO>>,
                      files |-> << <<>> >>], ToString(1))) : u \in {ADMIN_CHAT_ID + 1}}

InitReport ==
    /\ state = [u \in Users |-> IDLE]
    /\ data = [u \in Users |-> EmptyData]
    /\ tasks = [i \in 1..MaxTasks |-> NoTask]
    /\ now = 0
    /\ store \in SUBSET Filed
    /\ uploads = {}
    /\ uuids = Cardinality(store)
    /\ sent = NoMsg
    /\ update_id = 0
    /\ update = NoUpdate
    /\ epoch = [u \in Users |-> 0]
    /\ origin = {}
    /\ ids = [u \in Users |-> <<>>]
    /\ call = NoCall
    /\ ret = <<>>

NextReport ==
    \/ \E u \in Users : \E t \in Reports :
          update_id < MaxReports /\ Receive(u, t, NoFile) /\ cmd_report(u, t) /\ History
    \/ \E i \in 1..MaxTasks : Resume /\ report_queried(i) /\ History
    \/ \E i \in 1..MaxTasks : Resume /\ report_sent(i) /\ History
    \/ \E i \in 1..MaxTasks : Resume /\ report_send_failed(i) /\ History
    \/ Resume /\ Tick /\ History

SpecReport == InitReport /\ [][NextReport]_vars

(***************************************************************************)
(* Claims.                                                                  *)
(***************************************************************************)
Required == {"address", "cadastral", "who", "comment"}

\* this step received an update of user u
Received(u) == update_id' /= update_id /\ update'.user = u

\* the text of the update this step received, as the handlers read it
Text == Strip(update'.text)

\* C1: a conversation in CONFIRM has address, cadastral, who and comment
\* set in its data, and so has every row of the store and every record a
\* send is about to insert
C1_Complete ==
    /\ \A u \in Users :
          state[u] = CONFIRM => \A k \in Required : data[u][k] /= <<>>
    /\ \A r \in store : \A k \in Required : r[k] /= <<>>
    /\ \A i \in 1..MaxTasks :
          tasks[i].kind = "confirm" => \A k \in Required : tasks[i].rec[k] /= <<>>

\* a conversation is in CONFIRM and a row of its user is stored
C1_Witness ==
    \E u \in Users :
        /\ state[u] = CONFIRM
        /\ \E r \in store : r.user_id = u


\* the ids of the records of the handlers suspended in process_confirm
TaskIds == {tasks[i].rec.id : i \in {j \in 1..MaxTasks : tasks[j].kind = "confirm"}}

DraftOf(id) == CHOOSE o \in {<<x[2], x[3]>> : x \in {y \in origin : y[1] = id}} : TRUE

\* C3: no draft gives rise to two rows of the store: two rows built from
\* the same traversal of the same user's conversation are the same row
C3_OncePerDraft ==
    \A r1, r2 \in store : DraftOf(r1.id) = DraftOf(r2.id) => r1 = r2

\* C4: once the row is inserted the handler cannot end before the answer: a
\* failure of bot.send_message or of a file send leaves it suspended with the
\* row stored; after the send of file k, failed or not, file k + 1 is next
\* (the answer after the last); the answer thanks the user and the
\* conversation goes to IDLE
C4_NotifyFailureTolerated ==
    [][\A i \in 1..MaxTasks :
          LET t == tasks[i]
              stepped == tasks'[i] /= t
          IN  /\ (t.kind = "confirm" /\ t.pc = "send_message" /\ stepped) =>
                    /\ tasks'[i].kind = "confirm"
                    /\ tasks'[i].pc \in {"send_file", "answer"}
                    /\ row(t.rec) \in store'
              /\ (t.kind = "confirm" /\ t.pc = "send_file" /\ stepped) =>
                    /\ tasks'[i].kind = "confirm"
                    /\ row(t.rec) \in store'
                    /\ IF t.k < Len(t.rec.files)
                       THEN tasks'[i].pc = "send_file" /\ tasks'[i].k = t.k + 1
                       ELSE tasks'[i].pc = "answer"
              /\ (t.kind = "confirm" /\ t.pc = "answer" /\ stepped) =>
                    /\ sent' = Msg(t.user, "thanks")
                    /\ state'[t.user] = IDLE
                    /\ row(t.rec) \in store'
      ]_vars

\* the send of the first of two attachments failed (nothing was delivered)
\* and the second is being sent
C4_Witness ==
    \E i \in 1..MaxTasks :
        /\ tasks[i].kind = "confirm"
        /\ tasks[i].pc = "send_file"
        /\ tasks[i].k = 2
        /\ sent = NoMsg
        /\ \A j \in 1..MaxTasks : j /= i => tasks[j] = NoTask


\* the update this step received is a text the handlers take for a cancel
CancelText == Lower(Text) = TXT_CANCEL_LOW

\* C5: a cancel text received in a state other than IDLE moves the
\* conversation to IDLE, empties its data and is answered as a cancellation
C5_CancelWins ==
    [][\A u \in Users :
          (Received(u) /\ CancelText /\ state[u] /= IDLE) =>
             /\ state'[u] = IDLE
             /\ data'[u] = EmptyData
             /\ sent' = Msg(u, "cancelled")
      ]_vars

\* C6: when the new-request button is accepted and the conversation enters
\* ADDRESS, its data holds nothing
C6_FreshDraft ==
    [][\A u \in Users :
          (Received(u) /\ update'.text = TXT_NEW /\ state'[u] = ADDRESS) =>
             data'[u] = EmptyData
      ]_vars

\* s is t, or t with names appended
Extends(s, t) == Len(s) >= Len(t) /\ SubSeq(s, 1, Len(t)) = t

\* C7: the edit button in CONFIRM moves the conversation to ADDRESS with the
\* data unchanged; as long as the conversation is not ended, a field changes
\* only in the step of the state that asks for it (the attachment list only
\* grows); the preview sent on entering CONFIRM shows the data as it then is
C7_EditKeepsDraft ==
    [][\A u \in Users :
          /\ (Received(u) /\ state[u] = CONFIRM /\ Text = TXT_EDIT) =>
                /\ state'[u] = ADDRESS
                /\ data'[u] = data[u]
          /\ state'[u] /= IDLE =>
                /\ data'[u].address /= data[u].address =>
                      Received(u) /\ state[u] = ADDRESS
                /\ data'[u].cadastral /= data[u].cadastral =>
                      Received(u) /\ state[u] = CADASTRAL
                /\ data'[u].who /= data[u].who =>
                      Received(u) /\ state[u] \in {WHO, WHO_OTHER}
                /\ data'[u].comment /= data[u].comment =>
                      Received(u) /\ state[u] = COMMENT
                /\ Extends(Get(data'[u], "files", <<>>), Get(data[u], "files", <<>>))
          /\ (state[u] /= CONFIRM /\ state'[u] = CONFIRM) =>
                /\ sent'.to = u
                /\ sent'.msg = "preview"
                /\ sent'.body.address = data'[u].address[1]
                /\ sent'.body.cadastral = data'[u].cadastral[1]
                /\ sent'.body.who = data'[u].who[1]
                /\ sent'.body.comment = data'[u].comment[1]
                /\ sent'.body.files =
                      IF data'[u].files[1] = <<>> THEN <<DASH>> ELSE data'[u].files[1]
      ]_vars

\* the edit button was just pressed: the conversation asks for the address
\* again and its data still holds the whole draft, an attachment included
C7_Witness ==
    \E u \in Users :
        /\ state[u] = ADDRESS
        /\ sent = Msg(u, "ask_address_again")
        /\ \A k \in Required : data[u][k] /= <<>>
        /\ Get(data[u], "files", <<>>) /= <<>>

\* the text is none of the commands the bot takes in every state
NoCommand(t) ==
    /\ ~IsCommand(t, {CMD_START, CMD_HELP, CMD_WHOAMI})
    /\ t /= TXT_CANCEL
    /\ t /= TXT_NEW

\* the re-prompt due for a text the state of user u rejects, "" if none is
RePrompt(u) ==
    CASE state[u] = ADDRESS /\ TokenCount(Text) < 2 -> "bad_address"
      [] state[u] = CADASTRAL /\ ~validate_cadastral(Text) -> "bad_cadastral"
      [] state[u] = WHO /\ Text \notin {TXT_AGENT, TXT_OWNER, TXT_OTHER} -> "bad_who"
      [] state[u] = DOCS /\ Text \notin {TXT_SKIP, TXT_DONE, TXT_UPLOAD} -> "bad_docs"
      [] state[u] = CONFIRM /\ Text \notin {TXT_SEND, TXT_EDIT, TXT_CANCEL} -> "bad_confirm"
      [] OTHER -> ""

\* C8: a text that is no command and that the state rejects (an invalid
\* address, an invalid cadastral number, none of the options of WHO, DOCS or
\* CONFIRM) is answered with the state's re-prompt and changes neither the
\* state nor the data
C8_RejectedInput ==
    [][\A u \in Users :
          (/\ Received(u)
           /\ update'.file = NoFile
           /\ NoCommand(update'.text)
           /\ ~(CancelText /\ state[u] /= CONFIRM)
           /\ RePrompt(u) /= "") =>
             /\ sent' = Msg(u, RePrompt(u))
             /\ state' = state
             /\ data' = data
      ]_vars

\* the cadastral number was rejected: the conversation is still in CADASTRAL
\* with the address it had
C8_Witness ==
    \E u \in Users :
        /\ state[u] = CADASTRAL
        /\ sent = Msg(u, "bad_cadastral")
        /\ update.text = TXT_ADDR
        /\ data[u].address = <<TXT_ADDR>>

\* C9: once bot.get_file has returned, the upload goes on to the download
\* exactly when its kind is PDF, JPEG or PNG and its size is at most 20 MiB;
\* an allowed kind over 20 MiB is answered "too large", another kind "wrong
\* type", and a rejection changes neither the data nor the state
C9_AcceptancePolicy ==
    [][\A i \in 1..MaxTasks :
          LET t == tasks[i]
              allowed == t.mime_type \in {"application/pdf", "image/jpeg", "image/png"}
              ok == allowed /\ t.file_size <= 20 * 1024 * 1024
              raised == tasks'[i] = NoTask /\ sent' = NoMsg
          IN  (t.kind = "docs" /\ t.pc = "get_file" /\ tasks'[i] /= t /\ ~raised) =>
                 IF ok
                 THEN tasks'[i].kind = "docs" /\ tasks'[i].pc = "download"
                 ELSE /\ tasks'[i] = NoTask
                      /\ sent' = Msg(t.user, IF allowed THEN "too_large" ELSE "bad_mime")
                      /\ data' = data
                      /\ state' = state
      ]_vars

\* a PDF of exactly 20 MiB is being downloaded and a PDF of 20 MiB + 1 byte
\* was just answered "too large"
C9_Witness ==
    \E i \in 1..MaxTasks :
        /\ tasks[i].kind = "docs"
        /\ tasks[i].pc = "download"
        /\ tasks[i].file_size = 20 * 1024 * 1024
        /\ sent = Msg(tasks[i].user, "too_large")
        /\ update.file.file_size = 20 * 1024 * 1024 + 1
        /\ update.file.mime_type = "application/pdf"

\* C10: when the fetch of an acceptable file raises, or the download and its
\* fallback both raise, the user gets a reply and neither the attachment list
\* nor the state changes
C10_TransportErrorReprompts ==
    [][\A i \in 1..MaxTasks :
          LET t == tasks[i]
          IN  (/\ t.kind = "docs"
               /\ tasks'[i] = NoTask
               /\ \/ t.pc = "get_file" /\ AcceptFile(t.mime_type, t.file_size) = "accept"
                  \/ t.pc = "fallback" /\ data' = data) =>
                 /\ sent'.to = t.user
                 /\ sent'.msg /= "none"
                 /\ data' = data
                 /\ state' = state
      ]_vars


\* C11: in WHO_OTHER a text that is empty once trimmed neither sets the role
\* nor leaves WHO_OTHER, and no row of the store has an empty role
C11_EmptyRoleRejected ==
    [][/\ \A u \in Users :
             (Received(u) /\ state[u] = WHO_OTHER /\ update'.file = NoFile
                 /\ NoCommand(update'.text) /\ Text = <<>>) =>
                /\ state'[u] = WHO_OTHER
                /\ data'[u].who = data[u].who
       /\ \A r \in store' : r.who /= <<>> /\ r.who /= << <<>> >>
      ]_vars

\* C12: a text received in COMMENT that is not the cancel command moves the
\* conversation to CONFIRM with the comment set to the trimmed text, or to
\* the default when that is empty
C12_CommentAdvances ==
    [][\A u \in Users :
          (Received(u) /\ state[u] = COMMENT /\ update'.file = NoFile
              /\ update'.text /= TXT_CANCEL /\ ~CancelText) =>
             /\ state'[u] = CONFIRM
             /\ data'[u].comment = <<IF Text = <<>> THEN TXT_NO ELSE Text>>
      ]_vars

\* the handlers of user u that are suspended in an await
Suspended(u) == {i \in 1..MaxTasks : tasks[i].kind /= "none" /\ tasks[i].user = u}

\* C13: an update of a user is handled only when no handler of that user is
\* suspended, so at most one handler of a user is in progress
C13_Serialized ==
    [][\A u \in Users :
          /\ Received(u) => Suspended(u) = {}
          /\ Cardinality({i \in 1..MaxTasks :
                            tasks'[i].kind /= "none" /\ tasks'[i].user = u}) <= 1
      ]_vars

\* C19: the name under which an accepted upload is stored is the name of no
\* file already in the upload directory
C19_FreshStoredName ==
    [][\A i \in 1..MaxTasks :
          (tasks[i].kind = "docs" /\ tasks[i].pc = "get_file"
              /\ tasks'[i].kind = "docs" /\ tasks'[i].pc = "download") =>
             tasks'[i].dest \notin uploads
      ]_vars

\* C20: the data of a conversation in IDLE is empty
C20_IdleIsEmpty ==
    \A u \in Users : state[u] = IDLE => data[u] = EmptyData


\* C18: the names in the data's files are those of the accepted uploads in
\* the order in which the uploads were received, each upload once
C18_UploadOrder ==
    \A u \in Users :
        /\ Len(ids[u]) = Len(Get(data[u], "files", <<>>))
        /\ \A j, k \in 1..Len(ids[u]) : j < k => ids[u][j] < ids[u][k]


\* the text of the call, trimmed and lower-cased, is one of the "none" words
IsSentinel(c) == Len(c.parts) = 1 /\ Lower(c.parts[1]) \in {TXT_NO, TXT_N, TXT_NO_EN}

\* the parts are four runs of digits of lengths 1-3, 1-3, 1-10 and 1-10
IsFourSegments(c) ==
    /\ Len(c.parts) = 4
    /\ \A k \in 1..4 : c.parts[k] /= <<>> /\ \A j \in 1..Len(c.parts[k]) : c.parts[k][j] \in Digits
    /\ Len(c.parts[1]) <= 3 /\ Len(c.parts[2]) <= 3
    /\ Len(c.parts[3]) <= 10 /\ Len(c.parts[4]) <= 10

\* C15: validate_cadastral returns True for a "none" word in any case and
\* with any whitespace around it, and otherwise exactly for four
\* colon-separated runs of digits of lengths 1-3, 1-3, 1-10 and 1-10
C15_CadastralValidator ==
    (call.fn = "validate_cadastral" /\ ret /= <<>>) =>
        ret[1] = (IsSentinel(call) \/ IsFourSegments(call))

\* C16: validate_address returns True exactly for the texts of two or more
\* words, whatever the whitespace before, between and after the words
C16_AddressValidator ==
    (call.fn = "validate_address" /\ ret /= <<>>) =>
        ret[1] = (Len(call.parts) >= 2)

\* validate_address returned True for two words with whitespace around them
C16_Witness ==
    /\ call.fn = "validate_address"
    /\ Len(call.parts) = 2
    /\ call.lead /= <<>> /\ call.trail /= <<>>
    /\ ret = <<TRUE>>


\* the rows created within the lookback of days days
InWindow(days) == {r \in store : now - datetime(r.created_at) <= days * DAY}

\* C17: when no row was created within the lookback, and whenever the
\* lookback is 0 days, cmd_report answers that nothing was found and sends
\* no file; a file that is sent has at least one row
C17_NoEmptyReport ==
    [][\A i \in 1..MaxTasks :
          /\ (tasks[i].kind = "report" /\ tasks[i].pc = "query" /\ tasks'[i] /= tasks[i]
                 /\ (InWindow(tasks[i].days) = {} \/ tasks[i].days = 0)) =>
                /\ tasks'[i] = NoTask
                /\ sent' = Msg(tasks[i].user, "not_found")
          /\ (tasks[i].kind = "report" /\ tasks[i].pc = "send_document"
                 /\ sent'.msg = "report") =>
                sent'.body.rows /= {}
      ]_vars


\* this step handles an event of user u: it receives an update of u or
\* resumes a handler of u
Acting(u) ==
    \/ Received(u)
    \/ /\ update_id' = update_id
       /\ \E i \in 1..MaxTasks :
             tasks[i].kind /= "none" /\ tasks[i].user = u /\ tasks'[i] /= tasks[i]

\* C14: a step that handles an event of one user leaves the state and the
\* data of every other user unchanged, and a row stored for a user holds the
\* address, the comment and the names of the files of that user only
C14_UsersIndependent ==
    [][/\ \A u, v \in Users :
             (u /= v /\ Acting(u)) => state'[v] = state[v] /\ data'[v] = data[v]
       /\ \A r \in store' :
             /\ r.address = <<AddressOf(r.user_id)>>
             /\ r.comment = <<CommentOf(r.user_id)>>
             /\ \A v \in Users \ {r.user_id} :
                   \A k \in 1..Len(r.files) : r.files[k] /= FileOf(v).file_name[1]
      ]_vars

\* a row of one user is stored, with a file, while the conversation of the
\* other user is under way with an address of its own
C14_Witness ==
    \E u, v \in Users :
        /\ u /= v
        /\ \E r \in store : r.user_id = u /\ r.files /= <<>>
        /\ state[v] \notin {IDLE, ADDRESS}
        /\ data[v].address = <<AddressOf(v)>>


\* what the send step delivers: the request text and the files to the
\* operator, the thanks to the user
Deliveries == {"request", "document", "photo", "thanks"}

\* C21: the insert comes first in the send step: a step that delivers the
\* request text or a file to the operator, or the thanks to the user, is a
\* step of a handler whose row was inserted by an earlier step; the step of
\* the insert itself delivers nothing; when the insert fails the handler
\* ends, no row is added, nothing is delivered, and the state and the data
\* of every conversation are what they were, so that the conversation it
\* left in CONFIRM takes the send button again
C21_InsertFirst ==
    [][/\ (sent'.msg \in Deliveries /\ tasks' /= tasks) =>
             \E i \in 1..MaxTasks :
                /\ tasks[i].kind = "confirm" /\ tasks'[i] /= tasks[i]
                /\ tasks[i].pc /= "save"
                /\ row(tasks[i].rec) \in store
                /\ sent'.msg = "thanks" => sent'.to = tasks[i].user
                /\ sent'.msg = "request" =>
                      sent'.body = fmt_request_message(tasks[i].rec)
                /\ sent'.msg \in {"document", "photo"} =>
                      sent'.body.id = tasks[i].rec.id
       /\ \A i \in 1..MaxTasks :
             (tasks[i].kind = "confirm" /\ tasks[i].pc = "save"
                /\ tasks'[i] /= tasks[i]) =>
                /\ sent' = NoMsg
                /\ state' = state /\ data' = data
                /\ IF row(tasks[i].rec) \in store'
                   THEN tasks'[i].kind = "confirm" /\ tasks'[i].pc = "send_message"
                   ELSE tasks'[i] = NoTask /\ store' = store
      ]_vars

\* the insert of the only send failed: its handler is gone, no row is
\* stored, nothing was delivered, and the conversation is in CONFIRM, which
\* it entered once, with its data
C21_Witness ==
    \E u \in Users :
        /\ uuids = 1
        /\ \A i \in 1..MaxTasks : tasks[i] = NoTask
        /\ store = {}
        /\ sent = NoMsg
        /\ state[u] = CONFIRM /\ epoch[u] = 1
        /\ \A k \in Required : data[u][k] /= <<>>

====
